---- MODULE Spec2Model ----
(***************************************************************************)
(* Tors-API (src/index.js): an express service over a better-sqlite3       *)
(* database with the tables tasks, categories and config.                  *)
(*                                                                         *)
(* The database file is the persistent state; every route handler is a     *)
(* function from (database, request) to (database, response), run to       *)
(* completion before the next request is taken (node runs the synchronous  *)
(* handlers one at a time).  A handler that throws is answered by          *)
(* express's default error handler with status 500; a statement that       *)
(* throws changes nothing (sqlite rolls the statement back).               *)
(***************************************************************************)
EXTENDS Integers, FiniteSets, Sequences, TLC

(* ------------------------------ bounds -------------------------------- *)

\* AUTOINCREMENT never stops in the program; the model stops inserting once
\* the sequence of a table has reached these values.
MaxTaskId == 2
MaxCategoryId == 2

(* ------------------------------ values -------------------------------- *)

\* A field absent from the JSON body / a header absent from the request.
undefined == "<undefined>"

\* SQL NULL in a TEXT column or parameter.
SqlNull == "<NULL>"

\* SQL NULL in the INTEGER column tasks.category_id.  Rowids generated by
\* AUTOINCREMENT start at 1, so 0 names no row.
NullId == 0

\* Text a client may send: the empty string and one non-empty string.
Texts == {"", "a"}
BodyTexts == Texts \cup {undefined}

validThemes == {"Desert", "Oasis", "Forest", "Snow"}
ThemeInputs == validThemes \cup {"Purple", "", undefined}

\* process.env.API_KEY: not set, set to the empty string, set to a secret.
ServerKeys == {undefined, "", "s3cret"}
\* The api-key header of a request: absent, empty, the secret, another value.
ClientKeys == {undefined, "", "s3cret", "wrong"}

\* Ids a client may put in a path or a body: every id the tables can hold
\* and one beyond.
TaskIdInputs == 1..(MaxTaskId + 1)
CategoryIdInputs == 1..(MaxCategoryId + 1)

Max(S) == CHOOSE m \in S : \A x \in S : x <= m

\* better-sqlite3 binds undefined (and null) as SQL NULL, other values as is.
Bind(v) == IF v = undefined THEN SqlNull ELSE v

\* JavaScript !v for v a string or undefined.
Not(v) == v = undefined \/ v = ""

\* A COALESCE that also skips the empty string, as JavaScript's x || y does.
CoalesceSkippingEmpty(x, y) == IF x # SqlNull /\ x # "" THEN x ELSE y
\* SQL COALESCE(x, y): the first argument that is not NULL.
COALESCE(x, y) == IF x # SqlNull THEN x ELSE y

(* ----------------------------- database ------------------------------- *)

\* The database before the schema is created: no table has a row.
\* tasks and categories map rowid to row, config is a set of rows,
\* sqlite_sequence holds the AUTOINCREMENT counters.
EmptyDb ==
    [tasks |-> [x \in {} |-> x], categories |-> [x \in {} |-> x], config |-> {},
     sqlite_sequence |-> [tasks |-> 0, categories |-> 0]]

\* A connection that does not enforce foreign keys.
foreign_keys_off == FALSE
\* The connection is opened with the library's defaults and no pragma is
\* issued; better-sqlite3 is compiled with SQLITE_DEFAULT_FOREIGN_KEYS=1, so
\* the FOREIGN KEY clause of tasks.category_id is enforced.
foreign_keys == TRUE

\* The rowid of INTEGER PRIMARY KEY without AUTOINCREMENT: one more than
\* the largest rowid in the table.
RowidNoAutoincrement(rows, seq) == Max(DOMAIN rows \cup {0}) + 1
\* The rowid of INTEGER PRIMARY KEY AUTOINCREMENT: one more than the largest
\* rowid the table has ever held.
Rowid(rows, seq) == Max(DOMAIN rows \cup {seq}) + 1

\* A statement's outcome: it ran (ok) and left the database d, or it threw.
Ran(d) == [ok |-> TRUE, db |-> d, lastInsertRowid |-> 0]
Threw(d) == [ok |-> FALSE, db |-> d, lastInsertRowid |-> 0]

Put(f, k, v) == [x \in DOMAIN f \cup {k} |-> IF x = k THEN v ELSE f[x]]
Drop(f, k) == [x \in DOMAIN f \ {k} |-> f[x]]

\* INSERT OR REPLACE INTO config (id, theme) VALUES (1, 'Desert')
InsertOrReplaceConfig(d) == [d EXCEPT !.config = {[id |-> 1, theme |-> "Desert"]}]
\* INSERT OR IGNORE INTO config (id, theme) VALUES (1, 'Desert')
InsertOrIgnoreConfig(d) ==
    IF \E r \in d.config : r.id = 1
    THEN d
    ELSE [d EXCEPT !.config = @ \cup {[id |-> 1, theme |-> "Desert"]}]

\* db.exec(schema): the CREATE TABLE IF NOT EXISTS statements keep existing
\* rows; then the default config row is inserted unless present.
initialize(d) == InsertOrIgnoreConfig(d)

\* SELECT theme FROM config WHERE id = 1
getTheme(d) == (CHOOSE r \in d.config : r.id = 1).theme

\* INSERT INTO tasks (name, description, eta) VALUES (?, ?, ?)
InsertTask(d, name, description, eta) ==
    IF SqlNull \in {name, description, eta}
    THEN Threw(d)
    ELSE LET id == Rowid(d.tasks, d.sqlite_sequence.tasks)
         IN [ok |-> TRUE,
             db |-> [d EXCEPT !.tasks = Put(@, id, [name |-> name, description |-> description,
                                                    eta |-> eta, category_id |-> NullId]),
                              !.sqlite_sequence.tasks = id],
             lastInsertRowid |-> id]

\* INSERT INTO categories (name) VALUES (?)
InsertCategory(d, name) ==
    IF name = SqlNull
    THEN Threw(d)
    ELSE LET id == Rowid(d.categories, d.sqlite_sequence.categories)
         IN [ok |-> TRUE,
             db |-> [d EXCEPT !.categories = Put(@, id, [name |-> name]),
                              !.sqlite_sequence.categories = id],
             lastInsertRowid |-> id]

\* UPDATE tasks SET name = COALESCE(?, name), ... WHERE id = ?
UpdateTaskFields(d, name, description, eta, id) ==
    IF id \notin DOMAIN d.tasks
    THEN Ran(d)
    ELSE Ran([d EXCEPT !.tasks[id].name = COALESCE(name, @),
                       !.tasks[id].description = COALESCE(description, @),
                       !.tasks[id].eta = COALESCE(eta, @)])

\* UPDATE categories SET name = ? WHERE id = ?
UpdateCategoryName(d, name, id) ==
    IF id \notin DOMAIN d.categories
    THEN Ran(d)
    ELSE IF name = SqlNull
         THEN Threw(d)
         ELSE Ran([d EXCEPT !.categories[id].name = name])

\* DELETE FROM tasks WHERE id = ?
DeleteTaskRow(d, id) == Ran([d EXCEPT !.tasks = Drop(@, id)])

\* DELETE FROM categories WHERE id = ?
\* With foreign keys enforced the statement throws while a task references
\* the row (the clause names no ON DELETE action).
DeleteCategoryRow(d, id) ==
    IF foreign_keys /\ \E t \in DOMAIN d.tasks : d.tasks[t].category_id = id
    THEN Threw(d)
    ELSE Ran([d EXCEPT !.categories = Drop(@, id)])

\* UPDATE tasks SET category_id = NULL WHERE category_id = ?
NullCategoryOfTasks(d, id) ==
    Ran([d EXCEPT !.tasks = [t \in DOMAIN @ |->
            IF @[t].category_id = id THEN [@[t] EXCEPT !.category_id = NullId] ELSE @[t]]])

\* UPDATE tasks SET category_id = ? WHERE id = ?
SetCategoryOfTask(d, categoryId, taskId) ==
    IF taskId \notin DOMAIN d.tasks
    THEN Ran(d)
    ELSE IF foreign_keys /\ categoryId # NullId /\ categoryId \notin DOMAIN d.categories
         THEN Threw(d)
         ELSE Ran([d EXCEPT !.tasks[taskId].category_id = categoryId])

\* UPDATE config SET theme = ? WHERE id = 1
UpdateTheme(d, theme) ==
    IF theme = SqlNull /\ \E r \in d.config : r.id = 1
    THEN Threw(d)
    ELSE Ran([d EXCEPT !.config = {IF r.id = 1 THEN [r EXCEPT !.theme = theme] ELSE r : r \in @}])

\* SELECT tasks.id, tasks.name, tasks.description, tasks.eta,
\*        categories.name AS category
\* FROM tasks LEFT JOIN categories ON tasks.category_id = categories.id
SelectTasksWithCategory(d) ==
    {[id |-> t, name |-> d.tasks[t].name, description |-> d.tasks[t].description,
      eta |-> d.tasks[t].eta,
      category |-> IF d.tasks[t].category_id \in DOMAIN d.categories
                   THEN d.categories[d.tasks[t].category_id].name
                   ELSE SqlNull] : t \in DOMAIN d.tasks}

\* SELECT * FROM categories
SelectCategories(d) == {[id |-> c, name |-> d.categories[c].name] : c \in DOMAIN d.categories}

(* ----------------------------- responses ------------------------------ *)

\* res.status(s).send(body): the status, the body's message, and the data
\* the body carries (a generated id, the rows of a list, a name or theme).
Send(status, message) ==
    [status |-> status, message |-> message, id |-> 0, rows |-> {}, value |-> ""]

\* A handler's result: the database it leaves and the response it sends.
Reply(d, r) == [db |-> d, res |-> r]

\* A statement threw inside a handler: express answers 500.
Uncaught(d) == Reply(d, Send(500, "Internal Server Error"))

(* ------------------------------ handlers ------------------------------ *)

\* An api-key check that does not look at whether API_KEY is set.
ApiKeyCheckWithoutConfigCheck(serverApiKey, clientApiKey) ==
    IF clientApiKey # serverApiKey
    THEN Send(403, "Forbidden: Invalid API Key.")
    ELSE Send(0, "next")
\* app.use: the api-key check.  The result is the response that ends the
\* request, or status 0 for next().
ApiKeyCheck(serverApiKey, clientApiKey) ==
    IF Not(serverApiKey)
    THEN Send(500, "Server configuration error.")
    ELSE IF clientApiKey # serverApiKey
         THEN Send(403, "Forbidden: Invalid API Key.")
         ELSE Send(0, "next")

\* app.get('/tasks')
GetTasks(d, req) ==
    Reply(d, [Send(200, "") EXCEPT !.rows = SelectTasksWithCategory(d)])

\* app.get('/categories')
GetCategories(d, req) ==
    Reply(d, [Send(200, "") EXCEPT !.rows = SelectCategories(d)])

\* app.get('/categories/:id')
GetCategoryById(d, req) ==
    IF req.id \notin DOMAIN d.categories
    THEN Reply(d, Send(404, "Category not found."))
    ELSE Reply(d, [Send(200, "") EXCEPT !.value = d.categories[req.id].name])

\* A POST /tasks that validates name alone.
PostTasksCheckingNameOnly(d, req) ==
    IF Not(req.name)
    THEN Reply(d, Send(400, "Missing required fields: name, description, eta."))
    ELSE LET result == InsertTask(d, Bind(req.name), Bind(req.description), Bind(req.eta))
         IN IF ~result.ok
            THEN Uncaught(result.db)
            ELSE Reply(result.db, [Send(201, "Task created successfully!")
                                     EXCEPT !.id = result.lastInsertRowid])
\* app.post('/tasks')
PostTasks(d, req) ==
    IF Not(req.name) \/ Not(req.description) \/ Not(req.eta)
    THEN Reply(d, Send(400, "Missing required fields: name, description, eta."))
    ELSE LET result == InsertTask(d, Bind(req.name), Bind(req.description), Bind(req.eta))
         IN IF ~result.ok
            THEN Uncaught(result.db)
            ELSE Reply(result.db, [Send(201, "Task created successfully!")
                                     EXCEPT !.id = result.lastInsertRowid])

\* app.post('/categories')
PostCategories(d, req) ==
    IF Not(req.name)
    THEN Reply(d, Send(400, "Category name is required."))
    ELSE LET result == InsertCategory(d, Bind(req.name))
         IN IF ~result.ok
            THEN Uncaught(result.db)
            ELSE Reply(result.db, [Send(201, "Category created successfully!")
                                     EXCEPT !.id = result.lastInsertRowid])

\* app.put('/tasks/:id')
PutTask(d, req) ==
    IF req.id \notin DOMAIN d.tasks
    THEN Reply(d, Send(404, "Task not found."))
    ELSE LET result == UpdateTaskFields(d, Bind(req.name), Bind(req.description),
                                        Bind(req.eta), req.id)
         IN IF ~result.ok
            THEN Uncaught(result.db)
            ELSE Reply(result.db, Send(200, "Task updated successfully!"))

\* app.put('/categories/:id')
PutCategory(d, req) ==
    IF req.id \notin DOMAIN d.categories
    THEN Reply(d, Send(404, "Category not found."))
    ELSE LET result == UpdateCategoryName(d, Bind(req.name), req.id)
         IN IF ~result.ok
            THEN Uncaught(result.db)
            ELSE Reply(result.db, Send(200, "Category updated successfully!"))

\* app.delete('/tasks/:id')
DeleteTask(d, req) ==
    IF req.id \notin DOMAIN d.tasks
    THEN Reply(d, Send(404, "Task not found."))
    ELSE LET result == DeleteTaskRow(d, req.id)
         IN IF ~result.ok
            THEN Uncaught(result.db)
            ELSE Reply(result.db, Send(200, "Task deleted successfully!"))

\* app.delete('/categories/:id')
\* The two statements run one after the other, each in its own implicit
\* transaction; req.fault is the statement (1 or 2) at which the store
\* raises an error of its own (disk full, I/O error, locked file), 0 for
\* none.
DeleteCategory(d, req) ==
    IF req.id \notin DOMAIN d.categories
    THEN Reply(d, Send(404, "Category not found."))
    ELSE LET first == IF req.fault = 1 THEN Threw(d) ELSE DeleteCategoryRow(d, req.id)
         IN IF ~first.ok
            THEN Uncaught(first.db)
            ELSE LET second == IF req.fault = 2
                               THEN Threw(first.db)
                               ELSE NullCategoryOfTasks(first.db, req.id)
                 IN IF ~second.ok
                    THEN Uncaught(second.db)
                    ELSE Reply(second.db, Send(200, "Category deleted successfully!"))

\* An assign-category that does not look the category up.
PostAssignCategoryUnchecked(d, req) ==
    IF req.id \notin DOMAIN d.tasks
    THEN Reply(d, Send(404, "Crud! Task not found."))
    ELSE LET result == SetCategoryOfTask(d, req.categoryId, req.id)
         IN IF ~result.ok
            THEN Uncaught(result.db)
            ELSE Reply(result.db, Send(200, "Aye aye, category assigned successfully!"))
\* app.post('/tasks/:id/assign-category')
PostAssignCategory(d, req) ==
    IF req.id \notin DOMAIN d.tasks
    THEN Reply(d, Send(404, "Crud! Task not found."))
    ELSE IF req.categoryId \notin DOMAIN d.categories
         THEN Reply(d, Send(404, "Category not found."))
         ELSE LET result == SetCategoryOfTask(d, req.categoryId, req.id)
              IN IF ~result.ok
                 THEN Uncaught(result.db)
                 ELSE Reply(result.db, Send(200, "Aye aye, category assigned successfully!"))

\* A POST /theme that stores whatever it is sent.
PostThemeUnvalidated(d, req) ==
    LET result == UpdateTheme(d, Bind(req.newTheme))
    IN IF ~result.ok
       THEN Uncaught(result.db)
       ELSE Reply(result.db, Send(200, "Ahoy! Theme changed."))
\* app.post('/theme')
PostTheme(d, req) ==
    IF req.newTheme \notin validThemes
    THEN Reply(d, Send(400, "Invalid theme."))
    ELSE LET result == UpdateTheme(d, Bind(req.newTheme))
         IN IF ~result.ok
            THEN Uncaught(result.db)
            ELSE Reply(result.db, Send(200, "Ahoy! Theme changed."))

\* app.get('/theme')
GetThemeRoute(d, req) ==
    Reply(d, [Send(200, "") EXCEPT !.value = getTheme(d)])

\* The route table.
Route(d, req) ==
    CASE req.route = "GET /tasks" -> GetTasks(d, req)
      [] req.route = "GET /categories" -> GetCategories(d, req)
      [] req.route = "GET /categories/:id" -> GetCategoryById(d, req)
      [] req.route = "POST /tasks" -> PostTasks(d, req)
      [] req.route = "POST /categories" -> PostCategories(d, req)
      [] req.route = "PUT /tasks/:id" -> PutTask(d, req)
      [] req.route = "PUT /categories/:id" -> PutCategory(d, req)
      [] req.route = "DELETE /tasks/:id" -> DeleteTask(d, req)
      [] req.route = "DELETE /categories/:id" -> DeleteCategory(d, req)
      [] req.route = "POST /tasks/:id/assign-category" -> PostAssignCategory(d, req)
      [] req.route = "POST /theme" -> PostTheme(d, req)
      [] req.route = "GET /theme" -> GetThemeRoute(d, req)

\* One request through the middleware and then its route's handler.
Serve(d, serverApiKey, req) ==
    LET gate == ApiKeyCheck(serverApiKey, req.key)
    IN IF gate.status # 0 THEN Reply(d, gate) ELSE Route(d, req)

(* ------------------------------ requests ------------------------------ *)

GetTasksRequests == [route : {"GET /tasks"}, key : ClientKeys]
GetCategoriesRequests == [route : {"GET /categories"}, key : ClientKeys]
GetCategoryByIdRequests ==
    [route : {"GET /categories/:id"}, key : ClientKeys, id : CategoryIdInputs]
PostTasksRequests ==
    [route : {"POST /tasks"}, key : ClientKeys,
     name : BodyTexts, description : BodyTexts, eta : BodyTexts]
PostCategoriesRequests == [route : {"POST /categories"}, key : ClientKeys, name : BodyTexts]
PutTaskRequests ==
    [route : {"PUT /tasks/:id"}, key : ClientKeys, id : TaskIdInputs,
     name : BodyTexts, description : BodyTexts, eta : BodyTexts]
PutCategoryRequests ==
    [route : {"PUT /categories/:id"}, key : ClientKeys, id : CategoryIdInputs, name : BodyTexts]
DeleteTaskRequests == [route : {"DELETE /tasks/:id"}, key : ClientKeys, id : TaskIdInputs]
DeleteCategoryRequests ==
    [route : {"DELETE /categories/:id"}, key : ClientKeys, id : CategoryIdInputs, fault : 0..2]
\* categoryId absent from the body (or null) is bound as NULL.
PostAssignCategoryRequests ==
    [route : {"POST /tasks/:id/assign-category"}, key : ClientKeys, id : TaskIdInputs,
     categoryId : CategoryIdInputs \cup {NullId}]
PostThemeRequests == [route : {"POST /theme"}, key : ClientKeys, newTheme : ThemeInputs]
GetThemeRequests == [route : {"GET /theme"}, key : ClientKeys]

AllRequests ==
    GetTasksRequests \cup GetCategoriesRequests \cup GetCategoryByIdRequests
    \cup PostTasksRequests \cup PostCategoriesRequests \cup PutTaskRequests
    \cup PutCategoryRequests \cup DeleteTaskRequests \cup DeleteCategoryRequests
    \cup PostAssignCategoryRequests \cup PostThemeRequests \cup GetThemeRequests

(* ---------------------------- state machine --------------------------- *)

VARIABLES
    db,             \* ./tors-server.db
    API_KEY,        \* process.env.API_KEY of the running process
    route,          \* the route of the latest request
    res,            \* the response to the latest request
    everTaskIds,    \* history: the id of every task that has existed
    acceptedTheme   \* history: the theme of the latest POST /theme answered 200

vars == <<db, API_KEY, route, res, everTaskIds, acceptedTheme>>

\* No request has been answered yet.
NoResponse == Send(0, "")

\* The database a run leaves that creates a category and a task and assigns
\* the one to the other.
SeededDb ==
    LET c == PostCategories(initialize(EmptyDb), [name |-> "a"]).db
        t == PostTasks(c, [name |-> "a", description |-> "a", eta |-> "a"]).db
    IN PostAssignCategory(t, [id |-> 1, categoryId |-> 1]).db

\* The process starts on a new database file and runs the schema script
\* before it listens.
Init ==
    /\ db = initialize(EmptyDb)
    /\ API_KEY \in ServerKeys
    /\ route = ""
    /\ res = NoResponse
    /\ everTaskIds = {}
    /\ acceptedTheme = "Desert"

\* The process starts on a new database file or on the file an earlier run
\* left.
InitExisting ==
    /\ db \in {initialize(EmptyDb), initialize(SeededDb)}
    /\ API_KEY \in ServerKeys
    /\ route = ""
    /\ res = NoResponse
    /\ everTaskIds = DOMAIN db.tasks
    /\ acceptedTheme = "Desert"

\* The server takes the request req and answers it.
Answer(req) ==
    LET out == Serve(db, API_KEY, req)
    IN /\ db' = out.db
       /\ res' = out.res
       /\ everTaskIds' = everTaskIds \cup DOMAIN out.db.tasks
       /\ acceptedTheme' = IF req.route = "POST /theme" /\ out.res.status = 200
                            THEN req.newTheme
                            ELSE acceptedTheme
       /\ UNCHANGED API_KEY

GetTasksStep ==
    /\ route' = "GET /tasks"
    /\ \E req \in GetTasksRequests : Answer(req)
GetCategoriesStep ==
    /\ route' = "GET /categories"
    /\ \E req \in GetCategoriesRequests : Answer(req)
GetCategoryByIdStep ==
    /\ route' = "GET /categories/:id"
    /\ \E req \in GetCategoryByIdRequests : Answer(req)
PostTasksStep ==
    /\ db.sqlite_sequence.tasks < MaxTaskId
    /\ route' = "POST /tasks"
    /\ \E req \in PostTasksRequests : Answer(req)
PostCategoriesStep ==
    /\ db.sqlite_sequence.categories < MaxCategoryId
    /\ route' = "POST /categories"
    /\ \E req \in PostCategoriesRequests : Answer(req)
PutTaskStep ==
    /\ route' = "PUT /tasks/:id"
    /\ \E req \in PutTaskRequests : Answer(req)
PutCategoryStep ==
    /\ route' = "PUT /categories/:id"
    /\ \E req \in PutCategoryRequests : Answer(req)
DeleteTaskStep ==
    /\ route' = "DELETE /tasks/:id"
    /\ \E req \in DeleteTaskRequests : Answer(req)
DeleteCategoryStep ==
    /\ route' = "DELETE /categories/:id"
    /\ \E req \in DeleteCategoryRequests : Answer(req)
PostAssignCategoryStep ==
    /\ route' = "POST /tasks/:id/assign-category"
    /\ \E req \in PostAssignCategoryRequests : Answer(req)
PostThemeStep ==
    /\ route' = "POST /theme"
    /\ \E req \in PostThemeRequests : Answer(req)
GetThemeStep ==
    /\ route' = "GET /theme"
    /\ \E req \in GetThemeRequests : Answer(req)

\* The process is stopped and started again: the environment is read anew
\* and the schema script runs on the existing file.
Restart ==
    /\ db' = initialize(db)
    /\ API_KEY' \in ServerKeys
    /\ route' = ""
    /\ res' = NoResponse
    /\ UNCHANGED <<everTaskIds, acceptedTheme>>

Next ==
    \/ GetTasksStep
    \/ GetCategoriesStep
    \/ GetCategoryByIdStep
    \/ PostTasksStep
    \/ PostCategoriesStep
    \/ PutTaskStep
    \/ PutCategoryStep
    \/ DeleteTaskStep
    \/ DeleteCategoryStep
    \/ PostAssignCategoryStep
    \/ PostThemeStep
    \/ GetThemeStep
    \/ Restart

Spec == Init /\ [][Next]_vars

\* A client that works on tasks only.
NextTasks ==
    \/ GetTasksStep
    \/ PostTasksStep
    \/ PutTaskStep
    \/ DeleteTaskStep

SpecTasks == InitExisting /\ [][NextTasks]_vars

\* A client that creates and deletes tasks and categories and assigns the
\* ones to the others.
NextRefs ==
    \/ GetTasksStep
    \/ PostTasksStep
    \/ DeleteTaskStep
    \/ PostCategoriesStep
    \/ DeleteCategoryStep
    \/ PostAssignCategoryStep

SpecRefs == Init /\ [][NextRefs]_vars

\* A client that sets the theme and names categories, over restarts of the
\* process.
NextConfig ==
    \/ PostThemeStep
    \/ GetThemeStep
    \/ PostTasksStep
    \/ PostCategoriesStep
    \/ PutCategoryStep
    \/ GetCategoriesStep
    \/ GetCategoryByIdStep
    \/ Restart

SpecConfig == InitExisting /\ [][NextConfig]_vars

(* ------------------------------ properties ---------------------------- *)

\* The request passes the api-key check of the running process.
Admitted(req) == API_KEY \notin {undefined, ""} /\ req.key = API_KEY

\* Every task with a category_id references a row of categories.
RefIntegrity(d) ==
    \A t \in DOMAIN d.tasks :
        d.tasks[t].category_id # NullId => d.tasks[t].category_id \in DOMAIN d.categories

\* C1: in every reachable state every task whose category_id is not null
\* references an existing category, and whatever request is served next the
\* same holds afterwards; a task a request creates has category_id null, and
\* a request that changes a task's category_id to a non-null value is an
\* assign-category request.
C1_ReferencesResolve ==
    /\ RefIntegrity(db)
    /\ \A req \in AllRequests :
          LET out == Serve(db, API_KEY, req)
          IN /\ RefIntegrity(out.db)
             /\ \A t \in DOMAIN out.db.tasks :
                   /\ t \notin DOMAIN db.tasks
                        => req.route = "POST /tasks" /\ out.db.tasks[t].category_id = NullId
                   /\ ( /\ t \in DOMAIN db.tasks
                        /\ out.db.tasks[t].category_id # db.tasks[t].category_id
                        /\ out.db.tasks[t].category_id # NullId )
                        => req.route = "POST /tasks/:id/assign-category"

\* A category has been assigned to a task after another category was deleted.
C1_Witness ==
    /\ route = "POST /tasks/:id/assign-category"
    /\ res.status = 200
    /\ \E t \in DOMAIN db.tasks : db.tasks[t].category_id # NullId
    /\ Cardinality(DOMAIN db.categories) < db.sqlite_sequence.categories

\* C2: a DELETE /categories/:id request that names an existing category,
\* with no fault of the store, is answered 200 however many tasks reference
\* the category; afterwards the category is gone, every task is still there,
\* the tasks that referenced it have category_id null and the others keep
\* theirs.
C2_DeleteCascades ==
    [][\A req \in DeleteCategoryRequests :
          ( /\ Admitted(req)
            /\ req.fault = 0
            /\ req.id \in DOMAIN db.categories
            /\ route' = req.route
            /\ Answer(req) )
          => /\ res'.status = 200
             /\ req.id \notin DOMAIN db'.categories
             /\ DOMAIN db'.tasks = DOMAIN db.tasks
             /\ \A t \in DOMAIN db.tasks :
                   db'.tasks[t].category_id =
                       IF db.tasks[t].category_id = req.id
                       THEN NullId
                       ELSE db.tasks[t].category_id]_vars

\* C3: a step never applies one of the two writes of the category deletion
\* without the other: when a category row goes, no task references it
\* afterwards, and when a task's reference to a category is nulled, that
\* category's row is gone afterwards.
C3_CascadeAtomic ==
    [][/\ \A c \in DOMAIN db.categories \ DOMAIN db'.categories :
            \A t \in DOMAIN db'.tasks : db'.tasks[t].category_id # c
       /\ \A t \in DOMAIN db.tasks \cap DOMAIN db'.tasks :
            ( db.tasks[t].category_id # NullId /\ db'.tasks[t].category_id = NullId )
            => db.tasks[t].category_id \notin DOMAIN db'.categories]_vars

\* A category deletion has failed and has left the category and the task
\* that references it as they were.
C3_Witness ==
    /\ route = "DELETE /categories/:id"
    /\ res.status = 500
    /\ res.message = "Internal Server Error"
    /\ \E t \in DOMAIN db.tasks : db.tasks[t].category_id \in DOMAIN db.categories

\* C4: an admitted assign-category request that names no existing task is
\* answered 404 and changes nothing, whether its category exists or not; one
\* that names an existing task and no existing category is answered 404 and
\* changes nothing; one that names an existing task and an existing category
\* is answered 200 and sets that task's category_id to the category.
C4_AssignChecksBoth ==
    \A req \in PostAssignCategoryRequests :
        Admitted(req) =>
            LET out == Serve(db, API_KEY, req)
            IN IF req.id \notin DOMAIN db.tasks \/ req.categoryId \notin DOMAIN db.categories
               THEN out.res.status = 404 /\ out.db = db
               ELSE /\ out.res.status = 200
                    /\ out.db.tasks[req.id].category_id = req.categoryId

\* An assignment to a task that has a category was refused because the
\* category named does not exist.
C4_Witness ==
    /\ route = "POST /tasks/:id/assign-category"
    /\ res.status = 404
    /\ res.message = "Category not found."
    /\ \E t \in DOMAIN db.tasks : db.tasks[t].category_id # NullId

\* C5: an admitted PUT /tasks/:id request that names an existing task is
\* answered 200; each of name, description and eta present in the body (the
\* empty string included) is stored as sent, each one absent keeps its
\* value; the task's category_id, the set of task ids, every other task,
\* the categories and the config are as before.
C5_PartialUpdate ==
    \A req \in PutTaskRequests :
        (Admitted(req) /\ req.id \in DOMAIN db.tasks) =>
            LET out == Serve(db, API_KEY, req)
                old == db.tasks[req.id]
                new == out.db.tasks[req.id]
            IN /\ out.res.status = 200
               /\ DOMAIN out.db.tasks = DOMAIN db.tasks
               /\ new.name = IF req.name = undefined THEN old.name ELSE req.name
               /\ new.description =
                      IF req.description = undefined THEN old.description ELSE req.description
               /\ new.eta = IF req.eta = undefined THEN old.eta ELSE req.eta
               /\ new.category_id = old.category_id
               /\ \A t \in DOMAIN db.tasks \ {req.id} : out.db.tasks[t] = db.tasks[t]
               /\ out.db.categories = db.categories
               /\ out.db.config = db.config
               /\ out.db.sqlite_sequence = db.sqlite_sequence

\* A task with a category has been updated to an empty name while its
\* description kept its value, next to another task.
C5_Witness ==
    /\ route = "PUT /tasks/:id"
    /\ res.status = 200
    /\ \E t \in DOMAIN db.tasks :
          /\ db.tasks[t].name = ""
          /\ db.tasks[t].description = "a"
          /\ db.tasks[t].category_id # NullId
    /\ Cardinality(DOMAIN db.tasks) > 1

\* C6: the config table always holds exactly one row, its id is 1 and its
\* theme is one of the four themes; the theme is Desert until a POST /theme
\* is answered 200 and from then on the theme that request named, restarts
\* of the process included.
C6_ConfigSingleton ==
    /\ Cardinality(db.config) = 1
    /\ \A r \in db.config : r.id = 1 /\ r.theme \in validThemes
    /\ getTheme(db) = acceptedTheme

\* The process has been started again after the theme was changed.
C6_Witness ==
    /\ route = ""
    /\ res = NoResponse
    /\ acceptedTheme = "Forest"
    /\ getTheme(db) = "Forest"

\* C7: an admitted POST /theme whose newTheme is none of the four themes
\* (or absent) is answered 400 and GET /theme answers afterwards what it
\* answers before; one whose newTheme is one of the four is answered 200 and
\* GET /theme answers that theme afterwards; and GET /theme answers in every
\* state the theme of the latest POST /theme answered 200.
C7_ThemeValidated ==
    \A key \in ClientKeys :
        LET get == [route |-> "GET /theme", key |-> key]
        IN Admitted(get) =>
            /\ Serve(db, API_KEY, get).res.status = 200
            /\ Serve(db, API_KEY, get).res.value = acceptedTheme
            /\ \A newTheme \in ThemeInputs :
                  LET out == Serve(db, API_KEY,
                                   [route |-> "POST /theme", key |-> key, newTheme |-> newTheme])
                  IN IF newTheme \in {"Desert", "Oasis", "Forest", "Snow"}
                     THEN /\ out.res.status = 200
                          /\ Serve(out.db, API_KEY, get).res.value = newTheme
                     ELSE /\ out.res.status = 400
                          /\ Serve(out.db, API_KEY, get).res.value
                                 = Serve(db, API_KEY, get).res.value

\* A theme outside the set was refused after the theme was set to Forest.
C7_Witness ==
    /\ route = "POST /theme"
    /\ res.status = 400
    /\ getTheme(db) = "Forest"

\* C8: an admitted POST /tasks whose name, description or eta is absent or
\* empty is answered 400 and leaves the whole database as it was.
C8_CreateValidated ==
    \A req \in PostTasksRequests :
        ( /\ Admitted(req)
          /\ \E f \in {req.name, req.description, req.eta} : f \in {undefined, ""} )
        => LET out == Serve(db, API_KEY, req)
           IN out.res.status = 400 /\ out.db = db

\* A task creation was refused while tasks exist.
C8_Witness ==
    /\ route = "POST /tasks"
    /\ res.status = 400
    /\ DOMAIN db.tasks # {}

\* C9: an admitted POST /tasks with name, description and eta non-empty is
\* answered 201 with an id no task has had before, deleted tasks included,
\* and GET /tasks afterwards lists a task with that id, the name,
\* description and eta sent, and no category.
C9_FreshId ==
    \A req \in PostTasksRequests :
        ( /\ Admitted(req)
          /\ \A f \in {req.name, req.description, req.eta} : f \notin {undefined, ""} )
        => LET out == Serve(db, API_KEY, req)
               list == Serve(out.db, API_KEY, [route |-> "GET /tasks", key |-> req.key])
           IN /\ out.res.status = 201
              /\ out.res.id \notin everTaskIds
              /\ list.res.status = 200
              /\ [id |-> out.res.id, name |-> req.name, description |-> req.description,
                  eta |-> req.eta, category |-> SqlNull] \in list.res.rows

\* A task was created after a task was deleted.
C9_Witness ==
    /\ route = "POST /tasks"
    /\ res.status = 201
    /\ res.id \in DOMAIN db.tasks
    /\ everTaskIds \ DOMAIN db.tasks # {}

\* C10: whatever the request, when API_KEY is not set (or empty) the answer
\* is 500, and when it is set and the api-key header differs or is absent
\* the answer is 403; in both cases the database is left as it was.
C10_GateBeforeStore ==
    \A req \in AllRequests :
        LET out == Serve(db, API_KEY, req)
        IN /\ API_KEY \in {undefined, ""} => out.res.status = 500 /\ out.db = db
           /\ (API_KEY \notin {undefined, ""} /\ req.key # API_KEY)
                => out.res.status = 403 /\ out.db = db

\* A request was turned away for want of a server key, on a database that
\* holds tasks and a changed theme.
C10_Witness ==
    /\ res.status = 500
    /\ res.message = "Server configuration error."
    /\ API_KEY \in {undefined, ""}
    /\ DOMAIN db.tasks # {}
    /\ getTheme(db) # "Desert"

====
